---- MODULE Spec2Model ----
(***************************************************************************)
(* Dynatrace metrics report scripts (MichaelCain2/stryker).                *)
(*                                                                         *)
(* Spec models one run of metricsAPI2PDF_V8.py:                            *)
(*   __main__ : fetch every metric, group_data, create_pdf.                *)
(* SpecMetricsAPI models the fetch-and-parse loop of metricsAPI.py and     *)
(* SpecCoreCounts the fetch and group_data of metricAPI2PDF-corecounts.py, *)
(* both up to their call of create_pdf; SpecFinal a whole run of           *)
(* metricAPI2PDF_Final.py. SpecGraph applies generate_graph and            *)
(* SpecSanitize sanitize_filename on their own to bounded inputs;          *)
(* SpecSanitize4 does so for sanitize_filename of metricsAPI2PDF-4.py.     *)
(* The monitoring API is the environment: each HTTP reply is drawn from a  *)
(* bounded menu when the request is made. The nominal reply to a metric    *)
(* query carries one good series per host of the zone; at most MaxFaults   *)
(* replies of a run deviate from the nominal one.                          *)
(*                                                                         *)
(* Python values:  None in a series is NoneVal (<<>>), a number is the     *)
(* rational <<n, d>>; None as a dimension is the token NoneId; a dict is a *)
(* function whose DOMAIN is its key set, so dict.get is DictGet.           *)
(***************************************************************************)
EXTENDS Integers, Sequences, FiniteSets, TLC

VARIABLES
    pc,              \* position of the script: "fetch", "group_metric", "group_point", "pdf_start", "pdf", "saved", "no_data", "crashed";
                     \* of NextPageKey.py: "export_main", "export_page", "export_write", "export_saved", "export_error", "export_cancelled"
    crash_site,      \* function whose exception ended the run ("" while running)
    mi,              \* __main__: number of metrics fetched so far
    raw_data,        \* __main__: raw_data, the bodies in metric order
    faults,          \* environment: replies so far that deviate from the nominal reply
    gi,              \* group_data: index of the metric being grouped
    dj,              \* group_data: index of the data point being grouped
    host_name_cache, \* group_data: host_name_cache
    lookups,         \* environment: entity id -> number of GET /entities/{id} requests
    seen,            \* history: the truthy leading dimensions of the data points processed so far
    parsed_data,     \* metricsAPI.py parse_data: grouped_data, the dict it returns
    grouped_data,    \* group_data: grouped_data, an insertion-ordered dict of dicts
    hi,              \* create_pdf: index of the host being laid out
    ki,              \* create_pdf: index of the next metric key of that host
    y_position,      \* create_pdf: y_position
    pages,           \* create_pdf: the canvas, a sequence of pages, each a sequence of drawn items
    zone,            \* environment: the entity ids the management zone selects
    call             \* a function applied on its own: its arguments and, once it returned, its result;
                     \* for NextPageKey.py the locals of main and fetch_data_with_pagination, the requests and the file

vars == <<pc, crash_site, mi, raw_data, faults, gi, dj, host_name_cache,
          lookups, seen, parsed_data, grouped_data, hi, ki, y_position, pages,
          zone, call>>

----------------------------------------------------------------------------
(* Bounds of the model *)

\* replies of one run that may deviate from the nominal reply
MaxFaults == 1

\* longest series handed to generate_graph on its own
MaxPoints == 3

\* longest name over Alphabet handed to sanitize_filename on its own
MaxLen == 4

----------------------------------------------------------------------------
(* Program constants *)

\* metrics, in definition order (dict insertion order)
metrics ==
    << "Processor", "Memory", "Average Disk Used Percentage",
       "Average Disk Utilization Time", "Disk Write Time Per Second",
       "Average Disk Queue Length", "Network Adapter In", "Network Adapter Out" >>

\* the selector of each metric, in the same order
selectors ==
    << "builtin:host.cpu.usage", "builtin:host.mem.usage", "builtin:host.disk.usedPct",
       "builtin:host.disk.utilTime", "builtin:host.disk.writeTime",
       "builtin:host.disk.queueLength", "builtin:host.net.nic.trafficIn",
       "builtin:host.net.nic.trafficOut" >>

\* reportlab letter page height in points
height == 792
margin == 55
chart_height == 135
chart_spacing == 15

----------------------------------------------------------------------------
(* Python values *)

NoneVal == <<>>
NoneId == "<None>"

Num(n, d) == <<n, d>>

IsNone(v) == v = NoneVal

\* a * k and a / k on rationals
Times(v, k) == <<v[1] * k, v[2]>>
Over(v, k) == <<v[1], v[2] * k>>

\* numeric equality of two numbers
NumEq(a, b) == a[1] * b[2] = b[1] * a[2]

\* truth value of a str-or-None
Falsy(x) == x \in {NoneId, ""}

\* dict.get(key, default)
DictGet(d, key, default) == IF key \in DOMAIN d THEN d[key] ELSE default

----------------------------------------------------------------------------
(* The monitoring API: the replies a request can get *)

\* entity ids of the two hosts of the management zone
HostIds == {"HOST-1", "HOST-2"}

\* entity ids of two disks of HOST-1
DiskIds == {"DISK-001", "DISK-002"}

\* the entities GET /entities/{id} knows
EntityIds == HostIds \cup DiskIds

\* displayName of an entity
DisplayName(id) ==
    CASE id = "HOST-1" -> "web-01"
      [] id = "HOST-2" -> "web-02"
      [] id = "DISK-001" -> "C:"
      [] OTHER -> "D:"

\* displayName of the other host, or disk, of the zone (two entities sharing
\* a name)
OtherName(id) ==
    CASE id = "HOST-1" -> "web-02"
      [] id = "HOST-2" -> "web-01"
      [] id = "DISK-001" -> "D:"
      [] OTHER -> "C:"

\* the selectors of the metrics the API reports per disk of a host
DiskSelectors ==
    { "builtin:host.disk.usedPct", "builtin:host.disk.utilTime",
      "builtin:host.disk.writeTime", "builtin:host.disk.queueLength" }

V042 == Num(42, 100)
V9 == Num(9, 1)

GoodSeries == [timestamps |-> <<1000>>, values |-> <<V042>>]

\* a series with two timestamps and one value
MismatchedSeries == [timestamps |-> <<1000, 2000>>, values |-> <<V042>>]

\* the series of a second disk
OtherSeries == [timestamps |-> <<1000>>, values |-> <<V9>>]

\* series the second data point of a reply may carry instead of GoodSeries
OddSeries ==
    { [timestamps |-> <<>>, values |-> <<>>],
      [timestamps |-> <<1000, 2000>>, values |-> <<NoneVal, NoneVal>>],
      [timestamps |-> <<1000, 2000>>, values |-> <<V042, NoneVal>>],
      MismatchedSeries }

DataPoint(dims, s) ==
    [dimensions |-> dims, timestamps |-> s.timestamps, values |-> s.values]

\* a data point without the key 'dimensions'
NoDimensions(s) == [timestamps |-> s.timestamps, values |-> s.values]

Body(metric, points) == [result |-> << [metricId |-> metric, data |-> points] >>]

\* the nominal reply to a metric query: one good series per host of the zone
NominalBody(metric) ==
    IF zone = {} THEN Body(metric, <<>>)
    ELSE Body(metric, << DataPoint(<<"HOST-1">>, GoodSeries), DataPoint(<<"HOST-2">>, GoodSeries) >>)

\* second data points that deviate from the nominal one
OddPoints ==
    { NoDimensions(GoodSeries), DataPoint(<<>>, GoodSeries), DataPoint(<<"">>, GoodSeries),
      DataPoint(<<"HOST-1">>, OtherSeries) }
    \cup { DataPoint(<<"HOST-2">>, s) : s \in OddSeries }

\* 200 replies to a metric query that deviate from the nominal one
OddBodies(metric) ==
    { [totalCount |-> 0],                             \* no key 'result'
      [result |-> <<>>],                              \* empty 'result'
      Body(metric, <<>>),                             \* no series
      Body(metric, << DataPoint(<<"HOST-1">>, GoodSeries) >>),
      Body(metric, << DataPoint(<<"HOST-1">>, MismatchedSeries),
                      DataPoint(<<"HOST-2">>, GoodSeries) >>) }
    \cup { Body(metric, << DataPoint(<<"HOST-1">>, GoodSeries), p >>) : p \in OddPoints }
    \cup ( IF metric \in DiskSelectors
           THEN { \* one series per disk of HOST-1
                  Body(metric, << DataPoint(<<"HOST-1", "DISK-001">>, GoodSeries),
                                  DataPoint(<<"HOST-1", "DISK-002">>, OtherSeries) >>),
                  \* a series reported for a disk instead of a host
                  Body(metric, << DataPoint(<<"HOST-1">>, GoodSeries),
                                  DataPoint(<<"DISK-001">>, OtherSeries) >>) }
           ELSE {} )

\* requests.get got no response (connection error, timeout)
NoReply == [status |-> 0, kind |-> "none", body |-> <<>>, fields |-> <<>>]

\* replies to GET <metrics/query>?metricSelector=metric: <<reply, is it a deviation>>
MetricReplies(metric) ==
    { <<[status |-> 200, body |-> NominalBody(metric)], 0>> }
    \cup { <<[status |-> 200, body |-> b], 1>> : b \in OddBodies(metric) }
    \cup { <<[status |-> 500, body |-> [error |-> "x"]], 1>>, <<NoReply, 1>> }

\* the entity of the nominal reply to GET /entities/{id}; the entity of a disk
\* has "fromRelationships": {}, without "isDiskOf"
EntityFields(id) ==
    IF id \in DiskIds
    THEN [displayName |-> DisplayName(id), fromRelationships |-> <<>>]
    ELSE [displayName |-> DisplayName(id)]

\* replies to GET /entities/{id}: kind is what response.json() makes of the body
EntityReplies(id) ==
    { <<[status |-> 200, kind |-> "object", fields |-> EntityFields(id)], 0>>,
      <<[status |-> 200, kind |-> "object", fields |-> [displayName |-> OtherName(id)]], 1>>,
      <<[status |-> 200, kind |-> "object", fields |-> [entityId |-> id]], 1>>,
      <<[status |-> 200, kind |-> "array", fields |-> <<>>], 1>>,
      <<[status |-> 200, kind |-> "invalid", fields |-> <<>>], 1>>,
      <<[status |-> 503, kind |-> "object", fields |-> [error |-> "x"]], 1>>,
      <<NoReply, 1>> }

----------------------------------------------------------------------------
(* fetch_metrics, fetch_host_name *)

\* the outcome of a call: a returned value or a raised exception
Return(v) == [raised |-> "", value |-> v]
Raise(e) == [raised |-> e, value |-> NoneId]

\* requests.get(url) raises a RequestException
GetRaises(reply) == reply.status = 0

\* response.raise_for_status() raises HTTPError, a RequestException
RaisesForStatus(reply) == reply.status >= 400

fetch_metrics(reply) ==
    IF GetRaises(reply) THEN Raise("ConnectionError")
    ELSE IF RaisesForStatus(reply) THEN Raise("HTTPError")
    ELSE Return(reply.body)

\* json_is_request_exception: whether the installed requests raises its own
\* JSONDecodeError (a RequestException, requests >= 2.27) or a bare ValueError
fetch_host_name(host_id, reply, json_is_request_exception) ==
    IF GetRaises(reply) \/ RaisesForStatus(reply) THEN Return(host_id)
    ELSE IF reply.kind = "invalid"
         THEN IF json_is_request_exception THEN Return(host_id) ELSE Raise("ValueError")
    ELSE IF reply.kind # "object" THEN Raise("AttributeError")
    ELSE Return(DictGet(reply.fields, "displayName", host_id))

----------------------------------------------------------------------------
(* group_data *)

\* metric_data.get('result', [])[0].get('data', [])
SeriesOf(metric_data) ==
    LET result == DictGet(metric_data, "result", <<>>) IN
    IF Len(result) = 0 THEN Raise("IndexError")
    ELSE Return(DictGet(result[1], "data", <<>>))

\* data_point.get('dimensions', [None])[0]
LeadingDimension(data_point) ==
    LET dimensions == DictGet(data_point, "dimensions", <<NoneId>>) IN
    IF Len(dimensions) = 0 THEN Raise("IndexError") ELSE Return(dimensions[1])

\* mutant: the cache is never consulted
CacheMissAlways(cache, host_id) == TRUE

\* if host_id not in host_name_cache
CacheMiss(cache, host_id) == host_id \notin DOMAIN cache

\* position of a key in an insertion-ordered dict (0: absent)
IndexOf(d, field, k) ==
    IF \E i \in 1..Len(d) : d[i][field] = k
    THEN CHOOSE i \in 1..Len(d) : d[i][field] = k
    ELSE 0

\* mutant: a key that is already there keeps its first value (setdefault)
SetMetricKeepFirst(d, key, timestamps, values) ==
    LET item == [key |-> key, timestamps |-> timestamps, values |-> values]
        i == IndexOf(d, "key", key)
    IN IF i = 0 THEN Append(d, item) ELSE d

\* d[key] = {"timestamps": ..., "values": ...} on the dict of one host: an
\* existing key keeps its position and gets the new value
SetMetric(d, key, timestamps, values) ==
    LET item == [key |-> key, timestamps |-> timestamps, values |-> values]
        i == IndexOf(d, "key", key)
    IN IF i = 0 THEN Append(d, item) ELSE [d EXCEPT ![i] = item]

\* if resolved_name not in grouped_data: grouped_data[resolved_name] = {}
\* grouped_data[resolved_name][metric_name] = {...}
SetSeries(g, resolved_name, metric_name, timestamps, values) ==
    LET g1 == IF IndexOf(g, "host", resolved_name) = 0
              THEN Append(g, [host |-> resolved_name, metrics |-> <<>>])
              ELSE g
        i == IndexOf(g1, "host", resolved_name)
    IN [g1 EXCEPT ![i].metrics = SetMetric(@, metric_name, timestamps, values)]

\* the data points of the metric being grouped
Points == SeriesOf(raw_data[gi]).value

----------------------------------------------------------------------------
(* generate_graph *)

\* mutant: the comprehension walks the list from its end
ListTimesReversed(values, k) ==
    IF \E i \in 1..Len(values) : IsNone(values[i]) THEN Raise("TypeError")
    ELSE Return([i \in 1..Len(values) |-> Times(values[Len(values) + 1 - i], k)])

\* [v * k for v in values]: TypeError on None
ListTimes(values, k) ==
    IF \E i \in 1..Len(values) : IsNone(values[i]) THEN Raise("TypeError")
    ELSE Return([i \in 1..Len(values) |-> Times(values[i], k)])

\* [v / k for v in values]: TypeError on None
ListOver(values, k) ==
    IF \E i \in 1..Len(values) : IsNone(values[i]) THEN Raise("TypeError")
    ELSE Return([i \in 1..Len(values) |-> Over(values[i], k)])

\* mutant: the disk branch scales to a percentage, as the Processor branch does
ScaledDiskTimes100(values, metric_name) ==
    IF metric_name = "Processor" THEN ListTimes(values, 100)
    ELSE IF metric_name = "Average Disk Used Percentage" THEN ListTimes(values, 100)
    ELSE IF metric_name = "Disk Write Time Per Second" THEN ListTimes(values, 10)
    ELSE IF metric_name \in {"Network Adapter In", "Network Adapter Out"} THEN ListOver(values, 1024)
    ELSE Return(values)

\* the scaling chain of generate_graph
Scaled(values, metric_name) ==
    IF metric_name = "Processor" THEN ListTimes(values, 100)
    ELSE IF metric_name = "Average Disk Used Percentage" THEN ListTimes(values, 1000)
    ELSE IF metric_name = "Disk Write Time Per Second" THEN ListTimes(values, 10)
    ELSE IF metric_name \in {"Network Adapter In", "Network Adapter Out"} THEN ListOver(values, 1024)
    ELSE Return(values)

\* mutant: the emptiness test forgets the all-null series
NoDataTimestampsOnly(timestamps, values) == Len(timestamps) = 0

\* not timestamps or all(v is None for v in values)
NoData(timestamps, values) ==
    Len(timestamps) = 0 \/ \A i \in 1..Len(values) : IsNone(values[i])

\* plt.plot(x, y) raises ValueError when x and y differ in length
PlotRaises(timestamps, values) == Len(timestamps) # Len(values)

NoGraph == [image |-> FALSE, timestamps |-> <<>>, values |-> <<>>]

\* mutant: the plot aligns a series of unequal lengths on its common prefix
generate_graph_truncating(timestamps, values, metric_name) ==
    IF NoData(timestamps, values) THEN NoGraph
    ELSE LET scaled == Scaled(values, metric_name) IN
         IF scaled.raised # "" THEN NoGraph
         ELSE LET n == IF Len(timestamps) < Len(values) THEN Len(timestamps) ELSE Len(values)
              IN [image |-> TRUE, timestamps |-> SubSeq(timestamps, 1, n),
                  values |-> SubSeq(scaled.value, 1, n)]

\* the buffer returned by generate_graph, or NoGraph for None; every exception
\* of the body is caught and turned into None
generate_graph(timestamps, values, metric_name) ==
    IF NoData(timestamps, values) THEN NoGraph
    ELSE LET scaled == Scaled(values, metric_name) IN
         IF scaled.raised # "" THEN NoGraph
         ELSE IF PlotRaises(timestamps, scaled.value) THEN NoGraph
         ELSE [image |-> TRUE, timestamps |-> timestamps, values |-> scaled.value]

----------------------------------------------------------------------------
(* create_pdf *)

\* the repeated header line drawn by start_new_page
ZoneLine == [kind |-> "zone"]

\* the initial header of the first page
TitleBlock(g) ==
    << ZoneLine, [kind |-> "report_time"], [kind |-> "period"],
       [kind |-> "host_count", n |-> Len(g)], [kind |-> "metrics", names |-> metrics] >>

\* y_position below the initial header
BelowTitle == height - 130 - 15 * Len(metrics) - 20

\* mutant: the new page gets no header line
NewPageBare(p) == Append(p, <<>>)

\* c.showPage(); the header line of the new page
NewPage(p) == Append(p, << ZoneLine >>)

\* mutant: start_new_page() leaves the cursor below a header strip
TopOfPageBelowStrip == height - margin - 50

\* y_position after start_new_page()
TopOfPage == height - margin

\* draw an item on the current page
Draw(p, item) == [p EXCEPT ![Len(p)] = Append(@, item)]

\* mutant: the space check forgets the height of the chart
NeedsPageBreakBelowMargin(y) == y < margin

\* if y_position - chart_height - chart_spacing < margin
NeedsPageBreak(y) == y - chart_height - chart_spacing < margin

\* mutant: the metric loop walks the dict of the host from its last key
HostMetricsReversed ==
    [k \in 1..Len(grouped_data[hi].metrics) |->
        grouped_data[hi].metrics[Len(grouped_data[hi].metrics) + 1 - k]]

\* the metrics of the host being laid out
HostMetrics == grouped_data[hi].metrics

----------------------------------------------------------------------------
(* The run of metricsAPI2PDF_V8.py *)

\* no function is applied on its own
NoCall == <<>>

\* the variables of a run before its first statement
NotStarted ==
    /\ crash_site = ""
    /\ mi = 0
    /\ raw_data = <<>>
    /\ faults = 0
    /\ gi = 0
    /\ dj = 0
    /\ host_name_cache = <<>>
    /\ lookups = [id \in EntityIds |-> 0]
    /\ seen = {}
    /\ parsed_data = <<>>
    /\ grouped_data = <<>>
    /\ hi = 0
    /\ ki = 0
    /\ y_position = 0
    /\ pages = <<>>

Init ==
    /\ pc = "fetch"
    /\ zone \in {HostIds, {}}
    /\ call = NoCall
    /\ NotStarted

Crash(site) ==
    /\ pc' = "crashed"
    /\ crash_site' = site

\* __main__: raw_data[metric_name] = fetch_metrics(...), then group_data is called
FetchMetric ==
    /\ UNCHANGED <<zone, call>>
    /\ pc = "fetch"
    /\ mi < Len(metrics)
    /\ \E r \in MetricReplies(selectors[mi + 1]) :
        /\ faults + r[2] <= MaxFaults
        /\ faults' = faults + r[2]
        /\ LET out == fetch_metrics(r[1]) IN
           IF out.raised # ""
           THEN /\ Crash("fetch_metrics")
                /\ UNCHANGED <<mi, raw_data, gi>>
           ELSE /\ raw_data' = Append(raw_data, out.value)
                /\ mi' = mi + 1
                /\ pc' = IF mi + 1 = Len(metrics) THEN "group_metric" ELSE "fetch"
                /\ gi' = IF mi + 1 = Len(metrics) THEN 1 ELSE gi
                /\ UNCHANGED crash_site
    /\ UNCHANGED <<dj, host_name_cache, lookups, seen, parsed_data, grouped_data, hi, ki,
                   y_position, pages>>

\* group_data: for metric_name, metric_data in raw_data.items(): the iterable of the inner loop
GroupMetric ==
    /\ UNCHANGED <<zone, call>>
    /\ pc = "group_metric"
    /\ gi <= Len(metrics)
    /\ IF SeriesOf(raw_data[gi]).raised # ""
       THEN Crash("group_data") /\ UNCHANGED dj
       ELSE pc' = "group_point" /\ dj' = 1 /\ UNCHANGED crash_site
    /\ UNCHANGED <<mi, raw_data, faults, gi, host_name_cache, lookups, seen, parsed_data,
                   grouped_data, hi, ki, y_position, pages>>

\* group_data: one iteration of the inner loop
GroupPoint ==
    /\ UNCHANGED <<zone, call>>
    /\ pc = "group_point"
    /\ dj <= Len(Points)
    /\ LET data_point == Points[dj]
           dim == LeadingDimension(data_point)
           host_id == dim.value
           timestamps == DictGet(data_point, "timestamps", <<>>)
           values == DictGet(data_point, "values", <<>>)
       IN
       IF dim.raised # ""
       THEN /\ Crash("group_data")
            /\ UNCHANGED <<dj, host_name_cache, lookups, seen, grouped_data, faults>>
       ELSE IF Falsy(host_id)
       THEN /\ dj' = dj + 1
            /\ UNCHANGED <<pc, crash_site, host_name_cache, lookups, seen, grouped_data, faults>>
       ELSE IF CacheMiss(host_name_cache, host_id)
       THEN \E r \in EntityReplies(host_id), json_is_request_exception \in BOOLEAN :
              /\ faults + r[2] <= MaxFaults
              /\ faults' = faults + r[2]
              /\ lookups' = [lookups EXCEPT ![host_id] = @ + 1]
              /\ seen' = seen \cup {host_id}
              /\ LET out == fetch_host_name(host_id, r[1], json_is_request_exception) IN
                 IF out.raised # ""
                 THEN /\ Crash("fetch_host_name")
                      /\ UNCHANGED <<dj, host_name_cache, grouped_data>>
                 ELSE /\ host_name_cache' = (host_id :> out.value) @@ host_name_cache
                      /\ grouped_data' = SetSeries(grouped_data, out.value, metrics[gi],
                                                   timestamps, values)
                      /\ dj' = dj + 1
                      /\ UNCHANGED <<pc, crash_site>>
       ELSE /\ grouped_data' = SetSeries(grouped_data, host_name_cache[host_id], metrics[gi],
                                         timestamps, values)
            /\ seen' = seen \cup {host_id}
            /\ dj' = dj + 1
            /\ UNCHANGED <<pc, crash_site, host_name_cache, lookups, faults>>
    /\ UNCHANGED <<mi, raw_data, gi, parsed_data, hi, ki, y_position, pages>>

\* group_data: the inner loop is exhausted, on to the next metric
GroupNext ==
    /\ UNCHANGED <<zone, call>>
    /\ pc = "group_point"
    /\ dj > Len(Points)
    /\ gi' = gi + 1
    /\ pc' = "group_metric"
    /\ UNCHANGED <<crash_site, mi, raw_data, faults, dj, host_name_cache, lookups,
                   seen, parsed_data, grouped_data, hi, ki, y_position, pages>>

\* group_data returns; __main__: if grouped_data: create_pdf(...) else: "No data available"
GroupReturn ==
    /\ UNCHANGED <<zone, call>>
    /\ pc = "group_metric"
    /\ gi > Len(metrics)
    /\ pc' = IF Len(grouped_data) > 0 THEN "pdf_start" ELSE "no_data"
    /\ UNCHANGED <<crash_site, mi, raw_data, faults, gi, dj, host_name_cache, lookups,
                   seen, parsed_data, grouped_data, hi, ki, y_position, pages>>

\* create_pdf: the canvas, the initial header and the list of metrics
PdfStart ==
    /\ UNCHANGED <<zone, call>>
    /\ pc = "pdf_start"
    /\ pages' = << TitleBlock(grouped_data) >>
    /\ y_position' = BelowTitle
    /\ hi' = 0
    /\ ki' = 0
    /\ pc' = "pdf"
    /\ UNCHANGED <<crash_site, mi, raw_data, faults, gi, dj, host_name_cache, lookups,
                   seen, parsed_data, grouped_data>>

\* mutant: a host none of whose series can be charted gets no section
PdfHostSkipChartless ==
    /\ UNCHANGED <<zone, call>>
    /\ pc = "pdf"
    /\ hi < Len(grouped_data)
    /\ IF hi = 0 THEN TRUE ELSE ki > Len(HostMetrics)
    /\ hi' = hi + 1
    /\ LET m == grouped_data[hi + 1].metrics IN
       IF \A k \in 1..Len(m) : ~generate_graph(m[k].timestamps, m[k].values, m[k].key).image
       THEN /\ ki' = Len(m) + 1
            /\ UNCHANGED <<pages, y_position>>
       ELSE /\ ki' = 1
            /\ pages' = Draw(NewPage(pages), [kind |-> "host", name |-> grouped_data[hi + 1].host,
                                              y |-> TopOfPage - 20])
            /\ y_position' = TopOfPage - 20 - 30
    /\ UNCHANGED <<pc, crash_site, mi, raw_data, faults, gi, dj, host_name_cache, lookups,
                   seen, parsed_data, grouped_data>>

\* mutant: a host section opens a page only when the current one is full
PdfHostSamePage ==
    /\ UNCHANGED <<zone, call>>
    /\ pc = "pdf"
    /\ hi < Len(grouped_data)
    /\ IF hi = 0 THEN TRUE ELSE ki > Len(HostMetrics)
    /\ hi' = hi + 1
    /\ ki' = 1
    /\ LET broke == NeedsPageBreak(y_position)
           y == IF broke THEN TopOfPage ELSE y_position
           p == IF broke THEN NewPage(pages) ELSE pages
       IN /\ pages' = Draw(p, [kind |-> "host", name |-> grouped_data[hi + 1].host, y |-> y - 20])
          /\ y_position' = y - 20 - 30
    /\ UNCHANGED <<pc, crash_site, mi, raw_data, faults, gi, dj, host_name_cache, lookups,
                   seen, parsed_data, grouped_data>>

\* create_pdf: the head of one iteration of the host loop
PdfHost ==
    /\ UNCHANGED <<zone, call>>
    /\ pc = "pdf"
    /\ hi < Len(grouped_data)
    /\ IF hi = 0 THEN TRUE ELSE ki > Len(HostMetrics)
    /\ hi' = hi + 1
    /\ ki' = 1
    /\ pages' = Draw(NewPage(pages), [kind |-> "host", name |-> grouped_data[hi + 1].host,
                                      y |-> TopOfPage - 20])
    /\ y_position' = TopOfPage - 20 - 30
    /\ UNCHANGED <<pc, crash_site, mi, raw_data, faults, gi, dj, host_name_cache, lookups,
                   seen, parsed_data, grouped_data>>

\* mutant: the space check runs after the chart is drawn, for the next one
PdfMetricBreakAfter ==
    /\ UNCHANGED <<zone, call>>
    /\ pc = "pdf"
    /\ hi >= 1
    /\ ki <= Len(HostMetrics)
    /\ ki' = ki + 1
    /\ LET data == HostMetrics[ki]
           graph == generate_graph(data.timestamps, data.values, data.key)
           y == y_position - (chart_height + chart_spacing)
           drawn == Draw(pages, [kind |-> "image", host |-> grouped_data[hi].host, key |-> data.key, y |-> y_position, timestamps |-> graph.timestamps, values |-> graph.values])
       IN
       IF NoData(data.timestamps, data.values) \/ ~graph.image
       THEN UNCHANGED <<pages, y_position>>
       ELSE IF NeedsPageBreak(y)
       THEN pages' = NewPage(drawn) /\ y_position' = TopOfPage
       ELSE pages' = drawn /\ y_position' = y
    /\ UNCHANGED <<pc, crash_site, mi, raw_data, faults, gi, dj, host_name_cache, lookups, seen, parsed_data, grouped_data, hi>>

\* mutant: the space check runs before the chart is known to exist
PdfMetricBreakFirst ==
    /\ UNCHANGED <<zone, call>>
    /\ pc = "pdf"
    /\ hi >= 1
    /\ ki <= Len(HostMetrics)
    /\ ki' = ki + 1
    /\ LET data == HostMetrics[ki]
           graph == generate_graph(data.timestamps, data.values, data.key)
           broke == NeedsPageBreak(y_position)
           y == IF broke THEN TopOfPage ELSE y_position
           p == IF broke THEN NewPage(pages) ELSE pages
       IN
       IF NoData(data.timestamps, data.values) \/ ~graph.image
       THEN pages' = p /\ y_position' = y
       ELSE /\ pages' = Draw(p, [kind |-> "image", host |-> grouped_data[hi].host, key |-> data.key, y |-> y, timestamps |-> graph.timestamps, values |-> graph.values])
            /\ y_position' = y - (chart_height + chart_spacing)
    /\ UNCHANGED <<pc, crash_site, mi, raw_data, faults, gi, dj, host_name_cache, lookups, seen, parsed_data, grouped_data, hi>>

\* mutant: generate_graph scales the list of the report in place
PdfMetricInPlace ==
    /\ UNCHANGED <<zone, call>>
    /\ pc = "pdf"
    /\ hi >= 1
    /\ ki <= Len(HostMetrics)
    /\ ki' = ki + 1
    /\ LET data == HostMetrics[ki]
           graph == generate_graph(data.timestamps, data.values, data.key)
       IN
       IF NoData(data.timestamps, data.values) \/ ~graph.image
       THEN UNCHANGED <<pages, y_position, grouped_data>>
       ELSE LET broke == NeedsPageBreak(y_position)
                y == IF broke THEN TopOfPage ELSE y_position
                p == IF broke THEN NewPage(pages) ELSE pages
            IN /\ pages' = Draw(p, [kind |-> "image", host |-> grouped_data[hi].host,
                                    key |-> data.key, y |-> y,
                                    timestamps |-> graph.timestamps, values |-> graph.values])
               /\ y_position' = y - (chart_height + chart_spacing)
               /\ grouped_data' = [grouped_data EXCEPT ![hi].metrics[ki].values = graph.values]
    /\ UNCHANGED <<pc, crash_site, mi, raw_data, faults, gi, dj, host_name_cache, lookups,
                   seen, parsed_data, hi>>

\* create_pdf: one iteration of the metric loop of a host
PdfMetric ==
    /\ UNCHANGED <<zone, call>>
    /\ pc = "pdf"
    /\ hi >= 1
    /\ ki <= Len(HostMetrics)
    /\ ki' = ki + 1
    /\ LET data == HostMetrics[ki]
           graph == generate_graph(data.timestamps, data.values, data.key)
       IN
       IF NoData(data.timestamps, data.values) \/ ~graph.image
       THEN UNCHANGED <<pages, y_position>>
       ELSE LET broke == NeedsPageBreak(y_position)
                y == IF broke THEN TopOfPage ELSE y_position
                p == IF broke THEN NewPage(pages) ELSE pages
            IN /\ pages' = Draw(p, [kind |-> "image", host |-> grouped_data[hi].host,
                                    key |-> data.key, y |-> y,
                                    timestamps |-> graph.timestamps, values |-> graph.values])
               /\ y_position' = y - (chart_height + chart_spacing)
    /\ UNCHANGED <<pc, crash_site, mi, raw_data, faults, gi, dj, host_name_cache, lookups,
                   seen, parsed_data, grouped_data, hi>>

\* create_pdf: c.save()
PdfSave ==
    /\ UNCHANGED <<zone, call>>
    /\ pc = "pdf"
    /\ hi = Len(grouped_data)
    /\ ki > Len(HostMetrics)
    /\ pc' = "saved"
    /\ UNCHANGED <<crash_site, mi, raw_data, faults, gi, dj, host_name_cache, lookups,
                   seen, parsed_data, grouped_data, hi, ki, y_position, pages>>

Next ==
    \/ FetchMetric
    \/ GroupMetric
    \/ GroupPoint
    \/ GroupNext
    \/ GroupReturn
    \/ PdfStart
    \/ PdfHost
    \/ PdfMetric
    \/ PdfSave

Spec == Init /\ [][Next]_vars

----------------------------------------------------------------------------
(* The run of metricsAPI.py, up to the call of create_pdf *)

\* raw_data['result'][0]['data']
MASeriesOf(raw) ==
    IF "result" \notin DOMAIN raw THEN Raise("KeyError")
    ELSE IF Len(raw.result) = 0 THEN Raise("IndexError")
    ELSE IF "data" \notin DOMAIN raw.result[1] THEN Raise("KeyError")
    ELSE Return(raw.result[1].data)

\* host_id of parse_data: dimensionMap['hostId'], else dimensions[0]
MAHostId(data) ==
    LET dimension_map == DictGet(data, "dimensionMap", <<>>)
        host_id == DictGet(dimension_map, "hostId", NoneId)
    IN IF Falsy(host_id) /\ "dimensions" \in DOMAIN data
       THEN IF Len(data.dimensions) = 0 THEN Raise("IndexError")
            ELSE Return(data.dimensions[1])
       ELSE Return(host_id)

\* __main__: grouped_data[host_name][metric_name] = data for every item of parsed_data
RECURSIVE MAMerge(_, _, _)
MAMerge(g, parsed, metric_name) ==
    IF Len(parsed) = 0 THEN g
    ELSE LET g1 == IF IndexOf(g, "host", parsed[1].host) = 0
                   THEN Append(g, [host |-> parsed[1].host, metrics |-> <<>>])
                   ELSE g
             i == IndexOf(g1, "host", parsed[1].host)
             item == [key |-> metric_name, data |-> parsed[1].metrics]
             k == IndexOf(g1[i].metrics, "key", metric_name)
         IN MAMerge([g1 EXCEPT ![i].metrics = IF k = 0 THEN Append(@, item)
                                             ELSE [@ EXCEPT ![k] = item]],
                    Tail(parsed), metric_name)

\* __main__: raw_data = fetch_metrics(...), and parse_data up to the iterable of its loop
MAFetchMetric ==
    /\ UNCHANGED <<zone, call>>
    /\ pc = "fetch"
    /\ mi < Len(metrics)
    /\ \E r \in MetricReplies(selectors[mi + 1]) :
        /\ faults + r[2] <= MaxFaults
        /\ faults' = faults + r[2]
        /\ LET out == fetch_metrics(r[1]) IN
           IF out.raised # ""
           THEN /\ Crash("fetch_metrics")
                /\ UNCHANGED <<mi, raw_data, gi, dj, host_name_cache, parsed_data>>
           ELSE /\ raw_data' = << out.value >>
                /\ mi' = mi + 1
                /\ gi' = 1
                /\ host_name_cache' = <<>>
                /\ parsed_data' = <<>>
                /\ IF MASeriesOf(out.value).raised # ""
                   THEN Crash("parse_data") /\ UNCHANGED dj
                   ELSE pc' = "parse" /\ dj' = 1 /\ UNCHANGED crash_site
    /\ UNCHANGED <<lookups, seen, grouped_data, hi, ki, y_position, pages>>

\* parse_data: one iteration of the loop
MAParsePoint ==
    /\ UNCHANGED <<zone, call>>
    /\ pc = "parse"
    /\ dj <= Len(Points)
    /\ LET data == Points[dj]
           hid == MAHostId(data)
           host_id == hid.value
           metric_id == raw_data[1].result[1].metricId
           timestamps == DictGet(data, "timestamps", <<>>)
           values == DictGet(data, "values", <<>>)
       IN
       IF hid.raised # ""
       THEN /\ Crash("parse_data")
            /\ UNCHANGED <<dj, host_name_cache, lookups, seen, parsed_data, faults>>
       ELSE IF Falsy(host_id)
       THEN /\ dj' = dj + 1
            /\ UNCHANGED <<pc, crash_site, host_name_cache, lookups, seen, parsed_data, faults>>
       ELSE \E r \in EntityReplies(host_id), json_is_request_exception \in BOOLEAN :
              LET miss == CacheMiss(host_name_cache, host_id)
                  out == IF miss
                         THEN fetch_host_name(host_id, r[1], json_is_request_exception)
                         ELSE Return(host_name_cache[host_id])
                  cost == IF miss THEN r[2] ELSE 0
              IN
              /\ faults + cost <= MaxFaults
              /\ faults' = faults + cost
              /\ lookups' = IF miss THEN [lookups EXCEPT ![host_id] = @ + 1] ELSE lookups
              /\ seen' = seen \cup {host_id}
              /\ IF out.raised # ""
                 THEN /\ Crash("fetch_host_name")
                      /\ UNCHANGED <<dj, host_name_cache, parsed_data>>
                 ELSE /\ host_name_cache' = (host_id :> out.value) @@ host_name_cache
                      /\ parsed_data' =
                            IF Len(timestamps) = 0 \/ Len(values) = 0
                            THEN parsed_data
                            ELSE SetSeries(parsed_data, out.value, metric_id, timestamps, values)
                      /\ dj' = dj + 1
                      /\ UNCHANGED <<pc, crash_site>>
    /\ UNCHANGED <<mi, raw_data, gi, grouped_data, hi, ki, y_position, pages>>

\* parse_data returns; __main__ merges parsed_data and goes on to the next metric
MAParseReturn ==
    /\ UNCHANGED <<zone, call>>
    /\ pc = "parse"
    /\ dj > Len(Points)
    /\ grouped_data' = MAMerge(grouped_data, parsed_data, metrics[mi])
    /\ pc' = IF mi = Len(metrics) THEN "create_pdf" ELSE "fetch"
    /\ UNCHANGED <<crash_site, mi, raw_data, faults, gi, dj, host_name_cache, lookups, seen,
                   parsed_data, hi, ki, y_position, pages>>

NextMetricsAPI ==
    \/ MAFetchMetric
    \/ MAParsePoint
    \/ MAParseReturn

SpecMetricsAPI == Init /\ [][NextMetricsAPI]_vars

----------------------------------------------------------------------------
(* The run of metricAPI2PDF-corecounts.py, up to the call of create_pdf *)

\* the conversion of the values in group_data: None stays None
CCScaled(values, metric_name) ==
    LET k == IF metric_name = "Processor" THEN Num(100, 1)
             ELSE IF metric_name \in {"Average Disk Used Percentage",
                                      "Average Disk Utilization Time"} THEN Num(100, 1)
             ELSE IF metric_name = "Disk Write Time Per Second" THEN Num(1000, 1)
             ELSE IF metric_name \in {"Network Adapter In", "Network Adapter Out"}
                  THEN Num(1, 1024 * 1024)
             ELSE Num(1, 1)
    IN [i \in 1..Len(values) |->
          IF IsNone(values[i]) THEN NoneVal
          ELSE IF metric_name = "Memory" THEN values[i]
          ELSE Over(Times(values[i], k[1]), k[2])]

\* group_data: one iteration of the inner loop
CCGroupPoint ==
    /\ UNCHANGED <<zone, call>>
    /\ pc = "group_point"
    /\ dj <= Len(Points)
    /\ LET data_point == Points[dj]
           dim == LeadingDimension(data_point)
           host_id == dim.value
           timestamps == DictGet(data_point, "timestamps", <<>>)
           values == CCScaled(DictGet(data_point, "values", <<>>), metrics[gi])
       IN
       IF dim.raised # ""
       THEN /\ Crash("group_data")
            /\ UNCHANGED <<dj, seen, grouped_data>>
       ELSE /\ grouped_data' = SetSeries(grouped_data, host_id, metrics[gi], timestamps, values)
            /\ seen' = IF Falsy(host_id) THEN seen ELSE seen \cup {host_id}
            /\ dj' = dj + 1
            /\ UNCHANGED <<pc, crash_site>>
    /\ UNCHANGED <<mi, raw_data, faults, gi, host_name_cache, lookups, parsed_data,
                   hi, ki, y_position, pages>>

\* group_data returns; __main__ calls create_pdf
CCGroupReturn ==
    /\ UNCHANGED <<zone, call>>
    /\ pc = "group_metric"
    /\ gi > Len(metrics)
    /\ pc' = "create_pdf"
    /\ UNCHANGED <<crash_site, mi, raw_data, faults, gi, dj, host_name_cache, lookups,
                   seen, parsed_data, grouped_data, hi, ki, y_position, pages>>

NextCoreCounts ==
    \/ FetchMetric
    \/ GroupMetric
    \/ CCGroupPoint
    \/ GroupNext
    \/ CCGroupReturn

SpecCoreCounts == Init /\ [][NextCoreCounts]_vars

----------------------------------------------------------------------------
(* The run of metricAPI2PDF_Final.py: fetch_metrics, fetch_host_name and   *)
(* group_data are those of metricsAPI2PDF_V8.py; generate_graph does not   *)
(* scale, create_pdf has its own layout and __main__ calls it always.      *)

FinalMargin == 50
FinalChartHeight == 150
FinalChartSpacing == 30

\* generate_graph of metricAPI2PDF_Final.py
FinalGenerateGraph(timestamps, values, metric_name) ==
    IF NoData(timestamps, values) THEN NoGraph
    ELSE IF PlotRaises(timestamps, values) THEN NoGraph
    ELSE [image |-> TRUE, timestamps |-> timestamps, values |-> values]

\* the initial header of the first page
FinalTitleBlock(g) ==
    << ZoneLine, [kind |-> "report_time"], [kind |-> "period"],
       [kind |-> "host_count", n |-> Len(g)] >>

FinalTopOfPage == height - FinalMargin

\* group_data returns; __main__ goes on to create_pdf whatever it returned
FinalGroupReturn ==
    /\ pc = "group_metric"
    /\ gi > Len(metrics)
    /\ pc' = "pdf_start"
    /\ UNCHANGED <<crash_site, mi, raw_data, faults, gi, dj, host_name_cache, lookups,
                   seen, parsed_data, grouped_data, hi, ki, y_position, pages, zone, call>>

\* create_pdf: the canvas and the initial header
FinalPdfStart ==
    /\ pc = "pdf_start"
    /\ pages' = << FinalTitleBlock(grouped_data) >>
    /\ y_position' = FinalTopOfPage - 150
    /\ hi' = 0
    /\ ki' = 0
    /\ pc' = "pdf"
    /\ UNCHANGED <<crash_site, mi, raw_data, faults, gi, dj, host_name_cache, lookups,
                   seen, parsed_data, grouped_data, zone, call>>

\* create_pdf: the head of one iteration of the host loop
FinalPdfHost ==
    /\ pc = "pdf"
    /\ hi < Len(grouped_data)
    /\ IF hi = 0 THEN TRUE ELSE ki > Len(HostMetrics)
    /\ hi' = hi + 1
    /\ ki' = 1
    /\ pages' = Draw(NewPage(pages), [kind |-> "host", name |-> grouped_data[hi + 1].host,
                                      y |-> FinalTopOfPage - 20])
    /\ y_position' = FinalTopOfPage - 20 - 30
    /\ UNCHANGED <<pc, crash_site, mi, raw_data, faults, gi, dj, host_name_cache, lookups,
                   seen, parsed_data, grouped_data, zone, call>>

\* create_pdf: one iteration of the metric loop of a host
FinalPdfMetric ==
    /\ pc = "pdf"
    /\ hi >= 1
    /\ ki <= Len(HostMetrics)
    /\ ki' = ki + 1
    /\ LET data == HostMetrics[ki]
           graph == FinalGenerateGraph(data.timestamps, data.values, data.key)
       IN
       IF NoData(data.timestamps, data.values) \/ ~graph.image
       THEN UNCHANGED <<pages, y_position>>
       ELSE LET broke == y_position - FinalChartHeight - FinalChartSpacing < FinalMargin
                y == IF broke THEN FinalTopOfPage ELSE y_position
                p == IF broke THEN NewPage(pages) ELSE pages
            IN /\ pages' = Draw(p, [kind |-> "image", host |-> grouped_data[hi].host, key |-> data.key, y |-> y, timestamps |-> graph.timestamps, values |-> graph.values])
               /\ y_position' = y - (FinalChartHeight + FinalChartSpacing)
    /\ UNCHANGED <<pc, crash_site, mi, raw_data, faults, gi, dj, host_name_cache, lookups,
                   seen, parsed_data, grouped_data, hi, zone, call>>

\* create_pdf: c.save() after the host loop
FinalPdfSave ==
    /\ pc = "pdf"
    /\ hi = Len(grouped_data)
    /\ IF hi = 0 THEN TRUE ELSE ki > Len(HostMetrics)
    /\ pc' = "saved"
    /\ UNCHANGED <<crash_site, mi, raw_data, faults, gi, dj, host_name_cache, lookups,
                   seen, parsed_data, grouped_data, hi, ki, y_position, pages, zone, call>>

NextFinal ==
    \/ FetchMetric
    \/ GroupMetric
    \/ GroupPoint
    \/ GroupNext
    \/ FinalGroupReturn
    \/ FinalPdfStart
    \/ FinalPdfHost
    \/ FinalPdfMetric
    \/ FinalPdfSave

SpecFinal == Init /\ [][NextFinal]_vars

----------------------------------------------------------------------------
(* create_pdf applied on its own to the reports group_data can return: one *)
(* or two hosts, each with the first n metric keys, of which the first b   *)
(* hold a series that gets no chart and the others a good series.          *)

\* series that get no chart: empty, all values null, or a value missing
ChartlessSeries ==
    { [timestamps |-> <<>>, values |-> <<>>],
      [timestamps |-> <<1000, 2000>>, values |-> <<NoneVal, NoneVal>>],
      MismatchedSeries }

\* the dict of one host: keys metrics[1..n], the first b of them with series s
LayoutMetrics(n, b, s) ==
    [k \in 1..n |->
        [key |-> metrics[k],
         timestamps |-> IF k <= b THEN s.timestamps ELSE GoodSeries.timestamps,
         values |-> IF k <= b THEN s.values ELSE GoodSeries.values]]

\* the dicts a host can have: no chartless key, one, or only chartless keys
LayoutHostReports ==
    { LayoutMetrics(n, 0, GoodSeries) : n \in 1..Len(metrics) }
    \cup UNION { { LayoutMetrics(n, 1, s), LayoutMetrics(n, n, s) } :
                 n \in 1..Len(metrics), s \in ChartlessSeries }

\* the reports handed to create_pdf
LayoutReports ==
    { << [host |-> "web-01", metrics |-> m] >> : m \in LayoutHostReports }
    \cup { << [host |-> "web-01", metrics |-> m1], [host |-> "web-02", metrics |-> m2] >> :
             m1 \in LayoutHostReports, m2 \in LayoutHostReports }

InitLayout ==
    /\ pc = "pdf_start"
    /\ zone = HostIds
    /\ call = NoCall
    /\ crash_site = ""
    /\ mi = Len(metrics)
    /\ raw_data = <<>>
    /\ faults = 0
    /\ gi = Len(metrics) + 1
    /\ dj = 0
    /\ host_name_cache = <<>>
    /\ lookups = [id \in EntityIds |-> 0]
    /\ seen = {}
    /\ parsed_data = <<>>
    /\ grouped_data \in LayoutReports
    /\ hi = 0
    /\ ki = 0
    /\ y_position = 0
    /\ pages = <<>>

NextLayout ==
    \/ PdfStart
    \/ PdfHost
    \/ PdfMetric
    \/ PdfSave

SpecLayout == InitLayout /\ [][NextLayout]_vars

\* create_pdf is sequential code: its next statement is always executed
FairLayout == SpecLayout /\ WF_vars(NextLayout)

----------------------------------------------------------------------------
(* sanitize_filename; a str is the sequence of its characters *)

\* the characters \s matches
Whitespace == {" ", "\t"}

\* the character class [<>:"/\\|?*]
InvalidChars == {"<", ">", ":", "\"", "/", "\\", "|", "?", "*"}

\* the index of the first character at or after i that is not whitespace,
\* Len(s) + 1 when there is none
RECURSIVE SkipSpace(_, _)
SkipSpace(s, i) ==
    IF i > Len(s) THEN i
    ELSE IF s[i] \in Whitespace THEN SkipSpace(s, i + 1)
    ELSE i

\* re.sub(r'\s*:\s*', '_', s) from index i on: the leftmost match at i is
\* the whitespace run at i, a colon and the whitespace run after it
RECURSIVE SubColonFrom(_, _)
SubColonFrom(s, i) ==
    IF i > Len(s) THEN <<>>
    ELSE LET j == SkipSpace(s, i) IN
         IF j <= Len(s) /\ s[j] = ":"
         THEN << "_" >> \o SubColonFrom(s, SkipSpace(s, j + 1))
         ELSE << s[i] >> \o SubColonFrom(s, i + 1)

\* re.sub(r'[<>:"/\\|?*]', '_', s)
SubInvalid(s) == [i \in 1..Len(s) |-> IF s[i] \in InvalidChars THEN "_" ELSE s[i]]

\* re.sub(r'[:]', ' ', s), the substitution of sanitize_mz_for_filename
SubColonBySpace(s) == [i \in 1..Len(s) |-> IF s[i] = ":" THEN " " ELSE s[i]]

\* the index of the last character at or before i that is not whitespace,
\* 0 when there is none
RECURSIVE SkipSpaceBack(_, _)
SkipSpaceBack(s, i) ==
    IF i < 1 THEN 0
    ELSE IF s[i] \in Whitespace THEN SkipSpaceBack(s, i - 1)
    ELSE i

\* s.strip()
Strip(s) == SubSeq(s, SkipSpace(s, 1), SkipSpaceBack(s, Len(s)))

\* mutant: strips first and turns colons into spaces
sanitize_filename_strip_first(filename) == SubInvalid(SubColonBySpace(Strip(filename)))

\* sanitize_filename of metricsAPI2PDF_V8.py and metricAPI2PDF_Final.py
sanitize_filename(filename) ==
    LET colons == IF \E i \in 1..Len(filename) : filename[i] = ":"
                  THEN SubColonFrom(filename, 1)
                  ELSE filename
    IN Strip(SubInvalid(colons))

\* sanitize_filename of metricsAPI2PDF-4.py
sanitize_filename_4(filename) == SubInvalid(filename)

\* the characters of the bounded names
Alphabet == {"a", " ", ":", "/", "_"}

\* "Team: Alpha_01"
TeamAlpha == << "T", "e", "a", "m", ":", " ", "A", "l", "p", "h", "a", "_", "0", "1" >>

\* the names handed to sanitize_filename: every name over Alphabet up to
\* MaxLen characters, every invalid character and a tab next to a colon, and
\* the zone name "Team: Alpha_01"
Filenames ==
    UNION { [1..n -> Alphabet] : n \in 0..MaxLen }
    \cup { << "a", c, "b" >> : c \in InvalidChars }
    \cup { << "a", "\t", ":", "\t", "b" >>, << "\t", "a", "\t" >>, TeamAlpha }

InitSanitize ==
    /\ pc = "call"
    /\ zone = HostIds
    /\ NotStarted
    /\ \E f \in Filenames : call = [fn |-> "sanitize_filename", filename |-> f, results |-> <<>>]

\* sanitize_filename applied to the name, then to its own result
SanitizeCall ==
    /\ pc = "call"
    /\ call.fn = "sanitize_filename"
    /\ Len(call.results) < 2
    /\ call' = [call EXCEPT !.results =
                    Append(@, sanitize_filename(IF @ = <<>> THEN call.filename ELSE @[Len(@)]))]
    /\ UNCHANGED <<pc, crash_site, mi, raw_data, faults, gi, dj, host_name_cache, lookups,
                   seen, parsed_data, grouped_data, hi, ki, y_position, pages, zone>>

NextSanitize == SanitizeCall

SpecSanitize == InitSanitize /\ [][NextSanitize]_vars

\* sanitize_filename of metricsAPI2PDF-4.py applied to the name
Sanitize4Call ==
    /\ pc = "call"
    /\ call.fn = "sanitize_filename"
    /\ call.results = <<>>
    /\ call' = [call EXCEPT !.results = << sanitize_filename_4(call.filename) >>]
    /\ UNCHANGED <<pc, crash_site, mi, raw_data, faults, gi, dj, host_name_cache, lookups,
                   seen, parsed_data, grouped_data, hi, ki, y_position, pages, zone>>

NextSanitize4 == Sanitize4Call

SpecSanitize4 == InitSanitize /\ [][NextSanitize4]_vars

----------------------------------------------------------------------------
(* generate_graph applied on its own to every series up to MaxPoints points *)

TimestampLists == { [i \in 1..n |-> 1000 * i] : n \in 0..MaxPoints }

ValueLists == UNION { [1..n -> {V042, V9, NoneVal}] : n \in 0..MaxPoints }

InitGraph ==
    /\ pc = "call"
    /\ zone = HostIds
    /\ NotStarted
    /\ \E t \in TimestampLists, v \in ValueLists, m \in 1..Len(metrics) :
          call = [fn |-> "generate_graph", timestamps |-> t, values |-> v,
                  metric_name |-> metrics[m], returned |-> FALSE, graph |-> NoGraph]

\* graph = generate_graph(timestamps, values, metric_name)
GraphCall ==
    /\ pc = "call"
    /\ call.fn = "generate_graph"
    /\ ~call.returned
    /\ call' = [call EXCEPT !.returned = TRUE,
                            !.graph = generate_graph(call.timestamps, call.values, call.metric_name)]
    /\ UNCHANGED <<pc, crash_site, mi, raw_data, faults, gi, dj, host_name_cache, lookups,
                   seen, parsed_data, grouped_data, hi, ki, y_position, pages, zone>>

NextGraph == GraphCall

SpecGraph == InitGraph /\ [][NextGraph]_vars

----------------------------------------------------------------------------
(* Helpers of the properties *)

\* the images placed in the document so far
Images ==
    UNION { { pages[p][k] : k \in { j \in 1..Len(pages[p]) : pages[p][j].kind = "image" } } :
            p \in 1..Len(pages) }

\* the entries of grouped_data, as <<host, entry>>
Entries ==
    UNION { { <<grouped_data[i].host, grouped_data[i].metrics[k]>> :
                k \in 1..Len(grouped_data[i].metrics) } :
            i \in 1..Len(grouped_data) }

\* the entry of grouped_data an image was rendered from
SourceOf(image) == CHOOSE e \in Entries : e[1] = image.host /\ e[2].key = image.key

\* the images rendered from an entry
ImagesOf(e) == { im \in Images : im.host = e[1] /\ im.key = e[2].key }

\* the scale rule of a metric label as a rational factor
RuleOf(label) ==
    CASE label = "Processor" -> Num(100, 1)
      [] label = "Average Disk Used Percentage" -> Num(1000, 1)
      [] label = "Disk Write Time Per Second" -> Num(10, 1)
      [] label \in {"Network Adapter In", "Network Adapter Out"} -> Num(1, 1024)
      [] OTHER -> Num(1, 1)

\* the pages that continue a host section: the header line, then an image
ContinuationPages ==
    { p \in 1..Len(pages) : Len(pages[p]) >= 2 /\ pages[p][2].kind = "image" }

----------------------------------------------------------------------------
(* Properties *)

\* the names the entity ids seen so far are attributed to
NamesSeen ==
    { IF id \in DOMAIN host_name_cache THEN host_name_cache[id] ELSE id : id \in seen }

\* C1: the entity lookup is invoked exactly once per distinct entity id of the
\* run: once for every id seen as a leading dimension, never for another id.
C1_OneLookupPerId ==
    \A id \in EntityIds : lookups[id] = IF id \in seen THEN 1 ELSE 0

\* C2: fetch_host_name never lets an exception propagate: whatever the entities
\* endpoint answers, the run is never ended by an exception of fetch_host_name.
C2_LookupNeverRaises == crash_site # "fetch_host_name"

\* C3: the name cache is write-once per key: an entry of host_name_cache, once
\* present, stays and keeps its value in every later step of the run.
C3_CacheWriteOnce ==
    [][\A id \in DOMAIN host_name_cache :
          id \in DOMAIN host_name_cache' /\ host_name_cache'[id] = host_name_cache[id]]_vars

\* C3 witness: the first lookup of HOST-2 fell back to the raw id, and two
\* series of HOST-2 were then attributed to that same name.
C3_Witness ==
    /\ "HOST-2" \in DOMAIN host_name_cache
    /\ host_name_cache["HOST-2"] = "HOST-2"
    /\ \E e1, e2 \in Entries : e1[1] = "HOST-2" /\ e2[1] = "HOST-2" /\ e1[2].key # e2[2].key

\* C4: no chart is split across pages: every image was placed with
\* y_position - chart_height - chart_spacing >= margin, and the first image of
\* a continuation page follows the re-drawn header line and was placed at the
\* reset cursor height - margin.
C4_NoSplitChart ==
    /\ \A im \in Images : im.y - chart_height - chart_spacing >= margin
    /\ \A p \in ContinuationPages :
          pages[p][1] = ZoneLine /\ pages[p][2].y = height - margin

\* C4 witness: a host section ran out of space and continued on a new page.
C4_Witness == pc = "saved" /\ ContinuationPages # {}

\* C5: a series with no timestamps or with only null values never gets an
\* image in the document.
C5_NoChartForEmptySeries ==
    \A im \in Images :
        LET src == SourceOf(im)[2] IN
        /\ Len(src.timestamps) > 0
        /\ \E i \in 1..Len(src.values) : src.values[i] # NoneVal

\* C5 witness: the document is saved, a host has an all-null series without
\* an image, and another series of that host has its image.
C5_Witness ==
    /\ pc = "saved"
    /\ \E e, f \in Entries :
        /\ e[1] = f[1]
        /\ Len(e[2].timestamps) > 0 /\ Len(e[2].values) > 0
        /\ \A i \in 1..Len(e[2].values) : e[2].values[i] = NoneVal
        /\ ImagesOf(e) = {}
        /\ ImagesOf(f) # {}

\* C6: normalization preserves null positions and still charts the rest: in
\* the saved document every series with a timestamp per value and at least one
\* non-null value has an image, with null exactly at the indices of its nulls.
C6_NullsPreserved ==
    pc = "saved" =>
        \A e \in Entries :
            ( /\ Len(e[2].timestamps) = Len(e[2].values)
              /\ \E i \in 1..Len(e[2].values) : e[2].values[i] # NoneVal )
            => \E im \in ImagesOf(e) :
                 /\ Len(im.values) = Len(e[2].values)
                 /\ \A i \in 1..Len(im.values) :
                        (im.values[i] = NoneVal) <=> (e[2].values[i] = NoneVal)

C8_FailedFetchDoesNotAbort == crash_site # "fetch_metrics"

\* C9: aggregation never crashes on a shape failure: the run is never ended by
\* an exception of group_data.
C9_GroupDataNeverCrashes == crash_site # "group_data"

\* C10: no series is attributed to a placeholder host: no key of grouped_data
\* is None, "" or "Unknown", and every key is the name an entity id seen as a
\* leading dimension is attributed to.
C10_NoPlaceholderHost ==
    \A i \in 1..Len(grouped_data) :
        /\ grouped_data[i].host \notin {NoneId, "", "Unknown"}
        /\ grouped_data[i].host \in NamesSeen

\* the entries whose series has a timestamp for every value, at least one
\* value and no null
Plottable(e) ==
    /\ Len(e[2].timestamps) = Len(e[2].values)
    /\ Len(e[2].values) > 0
    /\ \A i \in 1..Len(e[2].values) : e[2].values[i] # NoneVal

\* C11: a series whose timestamps and values differ in length gets no chart
\* and is neither truncated nor padded: every image carries the timestamps of
\* its series unchanged and one value per timestamp; in the saved document the
\* other plottable series of the same host have their image.
C11_MismatchedSeriesDropped ==
    /\ \A im \in Images :
          LET src == SourceOf(im)[2] IN
          /\ Len(src.timestamps) = Len(src.values)
          /\ im.timestamps = src.timestamps
          /\ Len(im.values) = Len(src.values)
    /\ pc = "saved" =>
          \A e, f \in Entries :
              (Len(e[2].timestamps) # Len(e[2].values) /\ f[1] = e[1] /\ Plottable(f))
              => ImagesOf(f) # {}

\* C11 witness: the document is saved, a host has a series with two timestamps
\* and one value and no image for it, and another series of that host has its
\* image.
C11_Witness ==
    /\ pc = "saved"
    /\ \E e, f \in Entries :
        /\ e[1] = f[1]
        /\ Len(e[2].timestamps) = 2 /\ Len(e[2].values) = 1
        /\ ImagesOf(e) = {}
        /\ ImagesOf(f) # {}

\* the host headings drawn so far
Headings ==
    UNION { { pages[p][k].name : k \in { j \in 1..Len(pages[p]) : pages[p][j].kind = "host" } } :
            p \in 1..Len(pages) }

\* the metric loop of create_pdf is at a series for which generate_graph
\* returns None
RenderFails ==
    /\ pc = "pdf"
    /\ hi >= 1
    /\ ki <= Len(HostMetrics)
    /\ ~NoData(HostMetrics[ki].timestamps, HostMetrics[ki].values)
    /\ ~generate_graph(HostMetrics[ki].timestamps, HostMetrics[ki].values, HostMetrics[ki].key).image

\* C13: a failed chart render skips only that chart: the step that gets no
\* image leaves the pages and y_position unchanged and moves on to the next
\* key; in the saved document every host has its heading and every plottable
\* series its image.
C13_FailedRenderSkipsOnlyChart ==
    /\ [][RenderFails => (pages' = pages /\ y_position' = y_position /\ ki' = ki + 1
                          /\ hi' = hi /\ pc' = "pdf")]_vars
    /\ [](pc = "saved" =>
            /\ \A i \in 1..Len(grouped_data) : grouped_data[i].host \in Headings
            /\ \A e \in Entries : Plottable(e) => ImagesOf(e) # {})

\* C13 witness: the document is saved; the render of a series of the first
\* host failed where a chart would have needed a new page, the next chart of
\* that host opened the new page, and a later host has its heading and a chart.
C13_Witness ==
    /\ pc = "saved"
    /\ Len(grouped_data) >= 2
    /\ \E k \in 5..(Len(grouped_data[1].metrics) - 1) :
          LET e == <<grouped_data[1].host, grouped_data[1].metrics[k]>>
              f == <<grouped_data[1].host, grouped_data[1].metrics[k + 1]>>
          IN /\ ~Plottable(e) /\ ImagesOf(e) = {}
             /\ \E im \in ImagesOf(f) : im.y = TopOfPage
    /\ grouped_data[2].host \in Headings
    /\ \E im \in Images : im.host = grouped_data[2].host

\* the hosts whose heading or chart is on page p
HostsOn(p) ==
    { pages[p][k].name : k \in { j \in 1..Len(pages[p]) : pages[p][j].kind = "host" } }
    \cup { pages[p][k].host : k \in { j \in 1..Len(pages[p]) : pages[p][j].kind = "image" } }

\* the pages that carry the heading of a host
HeadingPages ==
    { p \in 1..Len(pages) : \E k \in 1..Len(pages[p]) : pages[p][k].kind = "host" }

\* C14: every host section starts on a fresh page: a host heading is the first
\* thing drawn after the page break, at the reset cursor; no page carries
\* headings or charts of two hosts; page 1 carries no heading and no chart.
C14_HostStartsOnFreshPage ==
    /\ \A p \in 1..Len(pages) :
          /\ Cardinality(HostsOn(p)) <= 1
          /\ \A k \in 1..Len(pages[p]) :
                pages[p][k].kind = "host" =>
                    /\ p > 1
                    /\ k = 2
                    /\ pages[p][1] = ZoneLine
                    /\ pages[p][k].y = height - margin - 20
    /\ Len(pages) >= 1 => HostsOn(1) = {}
    /\ Cardinality(HeadingPages) = IF pc \in {"pdf", "saved"} THEN hi ELSE 0

\* C14 witness: the document is saved with the sections of two hosts, each
\* with a chart below its heading, on different pages.
C14_Witness ==
    /\ pc = "saved"
    /\ \E p, q \in HeadingPages :
          /\ p # q
          /\ HostsOn(p) # HostsOn(q)
          /\ Len(pages[p]) >= 3 /\ Len(pages[q]) >= 3

\* C19: normalization preserves ordering and length: a charted series has the
\* timestamps of the input unchanged and one value per input value, and its
\* value at index i is the same for every input series of that length and
\* label that has the same value at index i.
C19_OrderAndLengthPreserved ==
    (call.returned /\ call.graph.image) =>
        /\ call.graph.timestamps = call.timestamps
        /\ Len(call.graph.values) = Len(call.values)
        /\ \A i \in 1..Len(call.values) :
              \A w \in ValueLists :
                  (Len(w) = Len(call.values) /\ w[i] = call.values[i]) =>
                      LET other == generate_graph(call.timestamps, w, call.metric_name) IN
                      other.image => other.values[i] = call.graph.values[i]

\* C19 witness: the series 0.42, 9, 0.42 of "Processor" is charted as 42, 900, 42
\* over its three timestamps.
C19_Witness ==
    /\ call.returned
    /\ call.metric_name = "Processor"
    /\ call.values = << V042, V9, V042 >>
    /\ call.graph.image
    /\ call.graph.timestamps = << 1000, 2000, 3000 >>
    /\ call.graph.values = << Num(4200, 100), Num(900, 1), Num(4200, 100) >>

\* C20 as stated: the title block (zone, report time, period, host count,
\* metrics list) is at the top of every page of the document.
C20_TitleBlockOnEveryPage ==
    \A p \in 1..Len(pages) :
        /\ Len(pages[p]) >= Len(TitleBlock(grouped_data))
        /\ SubSeq(pages[p], 1, Len(TitleBlock(grouped_data))) = TitleBlock(grouped_data)

\* C20 amended: page 1 carries the whole title block; every later page starts
\* with the zone line only, drawn before any host heading or chart, and
\* carries no other line of the title block.
C20_ZoneLineOnEveryLaterPage ==
    \A p \in 1..Len(pages) :
        /\ Len(pages[p]) >= 1
        /\ pages[p][1] = ZoneLine
        /\ p = 1 => pages[p] = TitleBlock(grouped_data)
        /\ p > 1 => \A k \in 2..Len(pages[p]) : pages[p][k].kind \in {"host", "image"}

\* C20 witness: the saved document has a page that opens a host section and a
\* page that continues one, each starting with the zone line alone.
C20_Witness ==
    /\ pc = "saved"
    /\ \E p, q \in 2..Len(pages) :
          /\ Len(pages[p]) >= 2 /\ pages[p][1] = ZoneLine /\ pages[p][2].kind = "host"
          /\ Len(pages[q]) >= 2 /\ pages[q][1] = ZoneLine /\ pages[q][2].kind = "image"

\* C12: an empty aggregated report produces no artifact: create_pdf is started
\* (a canvas exists) and the document is saved only when grouped_data has at
\* least one host; a run with an empty grouped_data ends reporting no data.
C12_NoArtifactForEmptyReport ==
    /\ pc \in {"pdf", "saved"} => Len(grouped_data) >= 1
    /\ pages # <<>> => Len(grouped_data) >= 1

\* a run of metricsAPI2PDF_V8.py over an empty zone ends with "No data
\* available to generate PDF." and without a canvas
NoDataReported == pc = "no_data" /\ pages = <<>> /\ grouped_data = <<>>

\* C15: sanitizing is idempotent: sanitize_filename applied to its own result
\* returns that result.
C15_SanitizeIdempotent ==
    Len(call.results) = 2 => call.results[2] = call.results[1]

\* C15 witness: " a:/" was sanitized to "a__", and sanitizing "a__" returned
\* "a__".
C15_Witness ==
    /\ call.filename = << " ", "a", ":", "/" >>
    /\ call.results = << << "a", "_", "_" >>, << "a", "_", "_" >> >>

\* the number of occurrences of the characters of set cs in s
Count(s, cs) == Cardinality({ i \in 1..Len(s) : s[i] \in cs })

\* C16: the result of sanitize_filename contains none of <>:"/\|?*; a colon
\* is replaced together with its surrounding whitespace by a single '_': in
\* the result of a name whose only special characters are colons there is
\* one '_' per colon and no whitespace next to a '_'; "Team: Alpha_01" yields
\* "Team_Alpha_01".
C16_ColonPatternThenInvalidChars ==
    call.results # <<>> =>
        LET in == call.filename
            out == call.results[1]
        IN /\ Count(out, InvalidChars) = 0
           /\ Count(in, (InvalidChars \ {":"}) \cup {"_"}) = 0 =>
                 /\ Count(out, {"_"}) = Count(in, {":"})
                 /\ \A i \in 1..Len(out) :
                       out[i] = "_" =>
                           /\ i > 1 => out[i - 1] \notin Whitespace
                           /\ i < Len(out) => out[i + 1] \notin Whitespace
           /\ in = TeamAlpha =>
                 out = << "T", "e", "a", "m", "_", "A", "l", "p", "h", "a", "_", "0", "1" >>

\* the series of a data point
SeriesOfPoint(data_point) ==
    [timestamps |-> DictGet(data_point, "timestamps", <<>>),
     values |-> DictGet(data_point, "values", <<>>)]

\* the dimensions of a data point, <<>> when it has none
Dimensions(data_point) == DictGet(data_point, "dimensions", <<>>)

\* C17: within a host a metric key appears at most once, and once group_data
\* has returned, two series of one metric with the same host and different
\* disk ids each have their own entry, under different keys of that host.
C17_KeysUniquePerHostAndDisk ==
    /\ \A i \in 1..Len(grouped_data) :
          \A a, b \in 1..Len(grouped_data[i].metrics) :
              a # b => grouped_data[i].metrics[a].key # grouped_data[i].metrics[b].key
    /\ pc \in {"pdf_start", "pdf", "saved"} =>
          \A g \in 1..Len(raw_data) :
              LET data == SeriesOf(raw_data[g]).value IN
              \A a, b \in 1..Len(data) :
                  ( /\ a < b
                    /\ Len(Dimensions(data[a])) >= 2 /\ Len(Dimensions(data[b])) >= 2
                    /\ Dimensions(data[a])[1] = Dimensions(data[b])[1]
                    /\ Dimensions(data[a])[2] # Dimensions(data[b])[2] )
                  => \E e, f \in Entries :
                        /\ e[1] = f[1]
                        /\ e[2].key # f[2].key
                        /\ [timestamps |-> e[2].timestamps, values |-> e[2].values] = SeriesOfPoint(data[a])
                        /\ [timestamps |-> f[2].timestamps, values |-> f[2].values] = SeriesOfPoint(data[b])

\* the inner loop of group_data is at a data point whose leading dimension
\* is the id of a disk
AtDiskPoint ==
    /\ pc = "group_point"
    /\ dj <= Len(Points)
    /\ Len(Dimensions(Points[dj])) >= 1
    /\ Dimensions(Points[dj])[1] \in DiskIds

\* C18: a disk series whose entity has no isDiskOf relationship is dropped:
\* the step that processes it creates no entry under any host and leaves
\* every existing host entry unchanged.
C18_UnownedDiskSeriesDropped ==
    [][AtDiskPoint => grouped_data' = grouped_data]_vars


\* C21: one fetch per metric, in definition order, and the phases of a run
\* never interleave: a metric is fetched only while no entity was looked up
\* and no page exists; an entity is looked up only after the last fetch and
\* before the first page; a page is opened or drawn on only after the last
\* fetch and the whole aggregation.
C21_PhasesNeverInterleave ==
    [][ /\ mi' # mi =>
              /\ mi' = mi + 1
              /\ \A id \in EntityIds : lookups[id] = 0
              /\ pages = <<>>
        /\ lookups' # lookups =>
              /\ mi = Len(metrics)
              /\ pages = <<>> /\ pages' = <<>>
        /\ pages' # pages =>
              /\ mi = Len(metrics)
              /\ gi > Len(metrics)
              /\ lookups' = lookups ]_vars


\* the page an image or a host heading is on
PageOf(item) == CHOOSE p \in 1..Len(pages) : \E k \in 1..Len(pages[p]) : pages[p][k] = item

\* the host headings drawn so far, as items
HeadingItems ==
    UNION { { pages[p][k] : k \in { j \in 1..Len(pages[p]) : pages[p][j].kind = "host" } } :
            p \in 1..Len(pages) }

\* position of a host in grouped_data, and of a key within its host
HostIndex(name) == IndexOf(grouped_data, "host", name)
KeyIndex(name, key) == IndexOf(grouped_data[HostIndex(name)].metrics, "key", key)

\* C22: rendering order is insertion order: aggregation never moves a host or
\* a key that exists (a new one goes last), host sections are laid out in the
\* order of the hosts in grouped_data, and of two charts of one host the one
\* with the earlier key is on an earlier page or higher on the same page.
C22_RenderingOrderIsInsertionOrder ==
    /\ [][\A i \in 1..Len(grouped_data) :
              /\ i <= Len(grouped_data')
              /\ grouped_data'[i].host = grouped_data[i].host
              /\ \A k \in 1..Len(grouped_data[i].metrics) :
                    /\ k <= Len(grouped_data'[i].metrics)
                    /\ grouped_data'[i].metrics[k].key = grouped_data[i].metrics[k].key]_vars
    /\ [](\A h1, h2 \in HeadingItems :
             HostIndex(h1.name) < HostIndex(h2.name) => PageOf(h1) < PageOf(h2))
    /\ [](\A im1, im2 \in Images :
             (im1.host = im2.host /\ KeyIndex(im1.host, im1.key) < KeyIndex(im2.host, im2.key))
             => \/ PageOf(im1) < PageOf(im2)
                \/ PageOf(im1) = PageOf(im2) /\ im1.y > im2.y)

\* C22 witness: the saved document has two host sections; the first host has
\* charts on two pages, its fifth key opening the second one, and a key that
\* was overwritten during aggregation kept its place.
C22_Witness ==
    /\ pc = "saved"
    /\ Cardinality(HeadingItems) = 2
    /\ \E im1, im2 \in Images :
          /\ im1.host = grouped_data[1].host /\ im2.host = grouped_data[1].host
          /\ KeyIndex(im1.host, im1.key) = 4 /\ KeyIndex(im2.host, im2.key) = 5
          /\ PageOf(im2) = PageOf(im1) + 1
    /\ \E im \in Images :
          /\ im.host = grouped_data[1].host
          /\ KeyIndex(im.host, im.key) < Len(grouped_data[1].metrics)
          /\ im.values = << V9 >>


\* C23: the host count of the title block is the number of distinct host
\* entity ids that contributed a series to grouped_data.
C23_HostCountIsDistinctHostIds ==
    pages # <<>> => pages[1][4].n = Cardinality(seen \cap HostIds)


\* C24: create_pdf terminates in the finalized state: it saves the document,
\* after one heading per host and one visit of every key of every host, and
\* takes no step after the save; the last page of the saved document holds
\* more than its header line (no page break follows the last chart).
C24_PaginatorTerminates ==
    /\ <>(pc = "saved")
    /\ [][pc # "saved"]_vars
    /\ [][ /\ hi' \in {hi, hi + 1}
           /\ hi' = hi => ki' \in {ki, ki + 1}
           /\ hi' = hi + 1 => ki' = 1 ]_vars
    /\ [](pc = "saved" =>
             /\ hi = Len(grouped_data)
             /\ ki = Len(HostMetrics) + 1
             /\ Cardinality(HeadingItems) = Len(grouped_data)
             /\ Len(pages[Len(pages)]) >= 2)

\* C24 witness: the document of two hosts with eight charts each is saved; the
\* last page ends with the eighth chart of the second host.
C24_Witness ==
    /\ pc = "saved"
    /\ Len(grouped_data) = 2
    /\ Cardinality(Images) = 16
    /\ pages[Len(pages)][Len(pages[Len(pages)])].kind = "image"
    /\ pages[Len(pages)][Len(pages[Len(pages)])].key = metrics[Len(metrics)]


\* the pages that carry the heading or a chart of a host
PagesOfHost(name) == { p \in 1..Len(pages) : name \in HostsOn(p) }

\* the charts of a host in the document
ChartsOfHost(name) == { im \in Images : im.host = name }

\* the pages the section of a host with k charts takes: max(1, ceil(k / 4))
SectionPages(k) == IF k = 0 THEN 1 ELSE (k + 3) \div 4

\* the pages the sections of the first n hosts take
RECURSIVE SectionPagesUpTo(_)
SectionPagesUpTo(n) ==
    IF n = 0 THEN 0
    ELSE SectionPagesUpTo(n - 1)
         + SectionPages(Cardinality(ChartsOfHost(grouped_data[n].host)))

\* C27: at most 4 charts are placed on any page; in the saved document a host
\* with k charts occupies ceil(k / 4) pages, a host without charts one page,
\* and the document has 1 + the sum over the hosts of max(1, ceil(k / 4)) pages.
C27_FourChartsPerPage ==
    /\ \A p \in 1..Len(pages) :
          Cardinality({ k \in 1..Len(pages[p]) : pages[p][k].kind = "image" }) <= 4
    /\ pc = "saved" =>
          /\ \A i \in 1..Len(grouped_data) :
                Cardinality(PagesOfHost(grouped_data[i].host))
                    = SectionPages(Cardinality(ChartsOfHost(grouped_data[i].host)))
          /\ Len(pages) = 1 + SectionPagesUpTo(Len(grouped_data))

\* C27 witness: the saved document has a host with 4 charts on one page, next
\* to a host with 5 charts on two pages: 4 pages in all.
C27_Witness ==
    /\ pc = "saved"
    /\ Len(grouped_data) = 2
    /\ Cardinality(ChartsOfHost("web-01")) = 4 /\ Cardinality(PagesOfHost("web-01")) = 1
    /\ Cardinality(ChartsOfHost("web-02")) = 5 /\ Cardinality(PagesOfHost("web-02")) = 2
    /\ Len(pages) = 4


\* no series of the host at index i of grouped_data gets a chart
Chartless(i) ==
    \A k \in 1..Len(grouped_data[i].metrics) :
        LET m == grouped_data[i].metrics[k] IN
        ~generate_graph(m.timestamps, m.values, m.key).image

\* C28: the title block counts every host of grouped_data, and in the saved
\* document every host has its heading on a page of its own, also a host
\* none of whose series gets a chart: its page holds the header line and the
\* heading only.
C28_ChartlessHostKeepsItsPage ==
    /\ pages # <<>> => pages[1][4].n = Len(grouped_data)
    /\ pc = "saved" =>
          \A i \in 1..Len(grouped_data) :
              /\ \E h \in HeadingItems :
                    /\ h.name = grouped_data[i].host
                    /\ HostsOn(PageOf(h)) = {h.name}
                    /\ Chartless(i) => pages[PageOf(h)] = << ZoneLine, h >>
              /\ Chartless(i) => ChartsOfHost(grouped_data[i].host) = {}

\* C28 witness: the saved document counts two hosts; the first has three
\* series, all of them null, and a page with its heading alone; the second
\* has its charts.
C28_Witness ==
    /\ pc = "saved"
    /\ pages[1][4].n = 2
    /\ Len(grouped_data[1].metrics) = 3
    /\ Chartless(1)
    /\ \A k \in 1..3 : grouped_data[1].metrics[k].values = << NoneVal, NoneVal >>
    /\ pages[2] = << ZoneLine, [kind |-> "host", name |-> "web-01", y |-> TopOfPage - 20] >>
    /\ ChartsOfHost("web-02") # {}

----------------------------------------------------------------------------
(* C25: one series per host and metric, the last one *)

\* the data points of metric g that group_data files under the host named h
PointsFiledUnder(g, h) ==
    LET data == SeriesOf(raw_data[g]).value IN
    { j \in 1..Len(data) :
        LET dim == LeadingDimension(data[j]) IN
        /\ dim.raised = ""
        /\ ~Falsy(dim.value)
        /\ dim.value \in DOMAIN host_name_cache
        /\ host_name_cache[dim.value] = h }

LastOf(S) == CHOOSE j \in S : \A k \in S : k <= j

\* the metrics group_data has finished with
GroupedMetrics == IF pc \in {"group_metric", "group_point"} THEN 1..(gi - 1)
                  ELSE IF pc \in {"pdf_start", "pdf", "saved", "no_data"} THEN 1..Len(metrics)
                  ELSE {}

\* C25: for every host h and metric m, grouped_data[h][m] is the series of
\* the last data point, in input order, of metric m whose entity id resolves
\* to h; every such pair has an entry and no entry has another origin
C25_LastSeriesWins ==
    \A g \in GroupedMetrics :
        /\ \A i \in 1..Len(grouped_data) :
              LET h == grouped_data[i].host
                  k == IndexOf(grouped_data[i].metrics, "key", metrics[g])
                  S == PointsFiledUnder(g, h)
              IN IF S = {} THEN k = 0
                 ELSE /\ k # 0
                      /\ LET data_point == SeriesOf(raw_data[g]).value[LastOf(S)]
                              m == grouped_data[i].metrics[k]
                         IN /\ m.timestamps = DictGet(data_point, "timestamps", <<>>)
                            /\ m.values = DictGet(data_point, "values", <<>>)
        /\ \A h \in { host_name_cache[id] : id \in DOMAIN host_name_cache } :
              PointsFiledUnder(g, h) # {} => IndexOf(grouped_data, "host", h) # 0

\* grouping is over and a metric had two data points with different series
\* filed under one host: the entry holds the later one
C25_Witness ==
    /\ pc = "saved"
    /\ \E g \in 1..Len(metrics), i \in 1..Len(grouped_data) :
          LET S == PointsFiledUnder(g, grouped_data[i].host)
              data == SeriesOf(raw_data[g]).value
          IN \E a, b \in S :
                /\ a < b /\ b = LastOf(S)
                /\ DictGet(data[a], "values", <<>>) # DictGet(data[b], "values", <<>>)

----------------------------------------------------------------------------
(* C26: rendering does not touch the report *)

\* C26: no step of create_pdf changes grouped_data, and every chart in the
\* document is what generate_graph makes of the entry as the report holds it
\* now: the entry still has the raw values, so rendering it again scales
\* the raw values once and gives the same chart
C26_RenderingLeavesReportUnchanged ==
    /\ [][(pc \in {"pdf_start", "pdf"}) => (grouped_data' = grouped_data)]_vars
    /\ [](\A im \in Images :
            LET e == SourceOf(im)
                graph == generate_graph(e[2].timestamps, e[2].values, e[2].key)
            IN /\ graph.image
               /\ graph.values = im.values
               /\ graph.timestamps = im.timestamps)

\* the document is saved with a chart whose plotted values differ from the
\* values of its entry, which are still those of the data point it came from
C26_Witness ==
    /\ pc = "saved"
    /\ \E im \in Images :
          LET e == SourceOf(im)
              g == IndexOf([i \in 1..Len(metrics) |-> [key |-> metrics[i]]], "key", im.key)
          IN /\ im.values # e[2].values
             /\ \E j \in PointsFiledUnder(g, im.host) :
                   DictGet(SeriesOf(raw_data[g]).value[j], "values", <<>>) = e[2].values

----------------------------------------------------------------------------
(* NextPageKey.py: fetch_data_with_pagination and main *)

\* bound: the page requests of one export
MaxPages == 3

\* a URL is its text cut into pieces; "?" starts the query string and "&"
\* separates its parameters. The first is the form the prompt of main shows.
ApiUrls ==
    { <<"https://tenant/api/v2/logs/export">>,
      <<"https://tenant/api/v2/logs/export", "?", "from=now-1h">> }

PageKeys == {"K1", "K2"}

ItemLists == { <<>>, <<"a">>, <<"b", "c">> }

\* the bodies of a page: "items" and "nextPageKey" each present or not
PageBodies ==
    { [k \in D |-> IF k = "items" THEN <<>> ELSE NoneId] : D \in SUBSET {"nextPageKey"} }
    \cup { [items |-> it] : it \in ItemLists }
    \cup { [items |-> it, nextPageKey |-> key] :
               it \in ItemLists, key \in PageKeys \cup {"", NoneId} }
    \cup { [nextPageKey |-> key] : key \in PageKeys \cup {""} }

\* replies to GET url: kind is what response.json() makes of the body
PageReplies ==
    { [status |-> 200, kind |-> "object", fields |-> b] : b \in PageBodies }
    \cup { [status |-> 200, kind |-> "array", fields |-> <<>>],
           [status |-> 200, kind |-> "invalid", fields |-> <<>>],
           [status |-> 500, kind |-> "object", fields |-> [error |-> "x"]],
           [status |-> 0, kind |-> "none", fields |-> <<>>] }

\* url = api_url if not next_page_key else f"{api_url}&nextPageKey={next_page_key}"
PageUrl(api_url, next_page_key) ==
    IF Falsy(next_page_key) THEN api_url
    ELSE api_url \o <<"&", "nextPageKey=", next_page_key>>

\* requests.get(url) splits the URL: the query string is what follows the
\* first "?" (0: the URL has no query string)
QueryStart(url) ==
    IF \E i \in 1..Len(url) : url[i] = "?"
    THEN CHOOSE i \in 1..Len(url) : url[i] = "?" /\ \A j \in 1..(i - 1) : url[j] # "?"
    ELSE 0

\* the nextPageKey parameter of the request for a URL (NoneId: it has none)
NextPageKeyParam(url) ==
    LET q == QueryStart(url)
        at == { i \in (q + 1)..(Len(url) - 1) : url[i] = "nextPageKey=" }
    IN IF q = 0 \/ at = {} THEN NoneId
       ELSE url[(CHOOSE i \in at : \A j \in at : i <= j) + 1]

\* the path of the request for a URL: what precedes the query string
PathOf(url) ==
    LET q == QueryStart(url) IN
    IF q = 0 THEN url ELSE SubSeq(url, 1, q - 1)

\* mutant: a failed request ends the loop with the pages collected so far
PageStepPartial(all_data, reply) ==
    IF GetRaises(reply) \/ RaisesForStatus(reply)
    THEN Return([all_data |-> all_data, next_page_key |-> NoneId])
    ELSE IF reply.kind = "invalid" THEN Raise("JSONDecodeError")
    ELSE IF reply.kind # "object" THEN Raise("AttributeError")
    ELSE Return([all_data |-> IF "items" \in DOMAIN reply.fields
                              THEN all_data \o reply.fields.items ELSE all_data,
                 next_page_key |-> DictGet(reply.fields, "nextPageKey", NoneId)])

\* one iteration of the while loop after the request: all_data and
\* next_page_key at its end, or the exception that leaves the function
PageStep(all_data, reply) ==
    IF GetRaises(reply) THEN Raise("ConnectionError")
    ELSE IF RaisesForStatus(reply) THEN Raise("HTTPError")
    ELSE IF reply.kind = "invalid" THEN Raise("JSONDecodeError")
    ELSE IF reply.kind # "object" THEN Raise("AttributeError")
    ELSE Return([all_data |-> IF "items" \in DOMAIN reply.fields
                              THEN all_data \o reply.fields.items ELSE all_data,
                 next_page_key |-> DictGet(reply.fields, "nextPageKey", NoneId)])

InitExport ==
    /\ pc = "export_main"
    /\ zone = HostIds
    /\ NotStarted
    /\ \E u \in ApiUrls :
          call = [fn |-> "main", api_url |-> u, save_path |-> "", next_page_key |-> NoneId,
                  urls |-> <<>>, replies |-> <<>>, all_data |-> <<>>,
                  written |-> FALSE, file |-> <<>>, error |-> ""]

\* main: the save dialog; fetch_data_with_pagination is entered with
\* all_data = [] and next_page_key = None
ExportMain ==
    /\ pc = "export_main"
    /\ \E save_path \in {"", "out.json"} :
          /\ call' = [call EXCEPT !.save_path = save_path]
          /\ pc' = IF save_path = "" THEN "export_cancelled" ELSE "export_page"
    /\ UNCHANGED <<crash_site, mi, raw_data, faults, gi, dj, host_name_cache, lookups,
                   seen, parsed_data, grouped_data, hi, ki, y_position, pages, zone>>

\* fetch_data_with_pagination: one iteration of the while loop; an exception
\* reaches the except clause of main, which prints it
ExportPage ==
    /\ pc = "export_page"
    /\ Len(call.urls) < MaxPages
    /\ \E reply \in PageReplies :
          LET url == PageUrl(call.api_url, call.next_page_key)
              out == PageStep(call.all_data, reply)
              sent == [call EXCEPT !.urls = Append(@, url), !.replies = Append(@, reply)]
          IN IF out.raised # ""
             THEN /\ call' = [sent EXCEPT !.error = out.raised]
                  /\ pc' = "export_error"
             ELSE /\ call' = [sent EXCEPT !.all_data = out.value.all_data,
                                          !.next_page_key = out.value.next_page_key]
                  /\ pc' = IF Falsy(out.value.next_page_key) THEN "export_write"
                           ELSE "export_page"
    /\ UNCHANGED <<crash_site, mi, raw_data, faults, gi, dj, host_name_cache, lookups,
                   seen, parsed_data, grouped_data, hi, ki, y_position, pages, zone>>

\* main: with open(save_path, 'w') as file: json.dump(all_data, file, indent=4);
\* open may raise OSError, which the except clause prints
ExportWrite ==
    /\ pc = "export_write"
    /\ \E opened \in BOOLEAN :
          IF opened
          THEN /\ call' = [call EXCEPT !.written = TRUE, !.file = call.all_data]
               /\ pc' = "export_saved"
          ELSE /\ call' = [call EXCEPT !.error = "OSError"]
               /\ pc' = "export_error"
    /\ UNCHANGED <<crash_site, mi, raw_data, faults, gi, dj, host_name_cache, lookups,
                   seen, parsed_data, grouped_data, hi, ki, y_position, pages, zone>>

NextExport == ExportMain \/ ExportPage \/ ExportWrite

SpecExport == InitExport /\ [][NextExport]_vars

\* the nextPageKey of a response (NoneId: absent, or the body is no object)
KeyOf(reply) ==
    IF reply.status = 200 /\ reply.kind = "object"
    THEN DictGet(reply.fields, "nextPageKey", NoneId) ELSE NoneId

\* the items of the first n responses, in request order
RECURSIVE ItemsUpTo(_, _)
ItemsUpTo(replies, n) ==
    IF n = 0 THEN <<>>
    ELSE ItemsUpTo(replies, n - 1)
         \o (IF replies[n].status = 200 /\ replies[n].kind = "object"
             THEN DictGet(replies[n].fields, "items", <<>>) ELSE <<>>)

\* C29: the first request has no nextPageKey parameter; every later request
\* goes to the same path with the key of the response before it as its
\* nextPageKey parameter; the loop goes on exactly while the last response
\* has a non-empty key; there is one request per response; all_data is the
\* concatenation of the items of the responses in request order
C29_FollowsNextPageKeyProtocol ==
    pc \in {"export_page", "export_write", "export_saved", "export_error"} =>
        LET n == Len(call.urls) IN
        /\ Len(call.replies) = n
        /\ n >= 1 => NextPageKeyParam(call.urls[1]) = NoneId
        /\ \A i \in 2..n :
              /\ ~Falsy(KeyOf(call.replies[i - 1]))
              /\ NextPageKeyParam(call.urls[i]) = KeyOf(call.replies[i - 1])
              /\ PathOf(call.urls[i]) = PathOf(call.urls[1])
        /\ (pc = "export_page" /\ n >= 1) => ~Falsy(KeyOf(call.replies[n]))
        /\ pc \in {"export_write", "export_saved"} => n >= 1 /\ Falsy(KeyOf(call.replies[n]))
        /\ pc # "export_error" => call.all_data = ItemsUpTo(call.replies, n)

\* C30: once a request has failed the run is in its error branch with the
\* exception reported and no file written; a written file holds the items
\* of every page, the last of which had no key
C30_FailedPageAbortsExport ==
    LET n == Len(call.replies)
        failed == { i \in 1..n : GetRaises(call.replies[i]) \/ RaisesForStatus(call.replies[i]) }
    IN pc \in {"export_page", "export_write", "export_saved", "export_error"} =>
        /\ failed # {} => pc = "export_error" /\ call.error # "" /\ ~call.written
                           /\ failed = {n}
        /\ pc = "export_error" => ~call.written /\ call.error # ""
        /\ call.written =>
              /\ pc = "export_saved"
              /\ failed = {}
              /\ call.file = ItemsUpTo(call.replies, n)
              /\ Falsy(KeyOf(call.replies[n]))
              /\ \A i \in 1..(n - 1) : ~Falsy(KeyOf(call.replies[i]))

\* a later page fails with an HTTP error after items were collected: the
\* error is reported and nothing is written
C30_Witness ==
    /\ pc = "export_error"
    /\ Len(call.replies) >= 2
    /\ RaisesForStatus(call.replies[Len(call.replies)])
    /\ call.all_data # <<>>
    /\ call.error = "HTTPError"
    /\ ~call.written

====
